---- MODULE Spec2Model ----
(***************************************************************************)
(* A model of the nonogram solver: the line candidate generator            *)
(* (generateLineSolns, choose), the move extractor (findValidMoves), the   *)
(* pruners (pruneByMoves, pruneByColors) and the solver loop               *)
(* (generateMoves) as driven by solve.                                     *)
(*                                                                         *)
(* Indices are 0-based as in the source; a Line is a TLA+ sequence, so the *)
(* source's line[i] is At(line, i) == line[i + 1].                         *)
(***************************************************************************)
EXTENDS Integers, Sequences, FiniteSets, TLC

\* ------------------------------------------------------------------ bounds

\* Largest number of row clues (board height) of a puzzle.
MaxHeight == 3
\* Largest number of column clues (board width) of a puzzle.
MaxWidth == 2
\* Largest side of a square puzzle.
MaxSide == 3
\* The candidate generator on its own: the longest line, the largest sum of a
\* clue's run lengths, and the largest colour id (ids are 0..GenMaxColor).
GenMaxLen == 5
GenMaxSum == 4
GenMaxColor == 1
\* Largest side of a two-colour square puzzle.
MaxArcSide == 3

\* ----------------------------------------------------------------- helpers

Max(a, b) == IF a >= b THEN a ELSE b

Range(s) == {s[i] : i \in 1..Len(s)}

At(line, i) == line[i + 1]

RECURSIVE Concat(_)
\* The concatenation of a sequence of sequences (Array.prototype.flat).
Concat(ss) == IF ss = <<>> THEN <<>> ELSE Head(ss) \o Concat(Tail(ss))

RECURSIVE SumCounts(_)
SumCounts(rule) ==
  IF rule = <<>> THEN 0 ELSE Head(rule).count + SumCounts(Tail(rule))

RECURSIVE SortedSeq(_)
\* The elements of a finite set of integers, ascending (the order in which
\* Object.keys and Object.values list integer keys).
SortedSeq(S) ==
  IF S = {} THEN <<>>
  ELSE LET m == CHOOSE a \in S : \A b \in S : a <= b
       IN <<m>> \o SortedSeq(S \ {m})

\* utils.ts: count(n, map) with map the constant v.
count(n, v) == [i \in 1..n |-> v]

\* utils.ts: keys(a), the keys of a map as numbers.
keys(m) == SortedSeq(DOMAIN m)

\* utils.ts: values(a), the entries of a map in key order.
values(m) == [i \in 1..Cardinality(DOMAIN m) |-> m[keys(m)[i]]]

RECURSIVE choose(_, _, _)
\* utils.ts: choose(max, pick, start): the pick-element combinations of
\* start..max-1, each ascending, in lexicographic order.
choose(max, pick, start) ==
  IF pick <= 0 THEN <<>>
  ELSE IF pick = 1 THEN [i \in 1..Max(max - start, 0) |-> <<start + i - 1>>]
  ELSE Concat([k \in 1..Max(max - 1 - start, 0) |->
         LET i == start + k - 1
             sub == choose(max, pick - 1, i + 1)
         IN [j \in 1..Len(sub) |-> <<i>> \o sub[j]]])

\* ------------------------------------------------------ candidate generator

\* isSameColorAsPrevious comparing the runs' counts where it should compare
\* their colours.
isSameColorAsPrevious_byCount(rule, i) ==
  i >= 1 /\ rule[i].count = rule[i + 1].count

isSameColorAsPrevious(rule, i) ==
  \* rule[i - 1]?.val === rule[i].val, i 0-based
  i >= 1 /\ rule[i].val = rule[i + 1].val

\* One arrangement (the chosen slots, ascending) decoded into a line.
decodeArrangement(rule, totalSlots, a) ==
  Concat([s \in 1..totalSlots |->
    IF \E i \in 1..Len(a) : a[i] = s - 1
    THEN LET i == CHOOSE i \in 1..Len(a) : a[i] = s - 1
             val == count(rule[i].count, rule[i].val)
         IN IF isSameColorAsPrevious(rule, i - 1) THEN <<-1>> \o val ELSE val
    ELSE <<-1>>])

generateLineSolns(lineLength, rule) ==
  IF Len(rule) = 0 THEN <<count(lineLength, -1)>>
  ELSE
    LET nGroups == Len(rule)
        mandatorySpaces ==
          Cardinality({i \in 0..(nGroups - 1) : isSameColorAsPrevious(rule, i)})
        sumOfColoredSpaces == SumCounts(rule)
        freeSpaces == lineLength - mandatorySpaces - sumOfColoredSpaces
        totalSlots == freeSpaces + nGroups
        arrangements == choose(totalSlots, nGroups, 0)
    IN [k \in 1..Len(arrangements) |->
          decodeArrangement(rule, totalSlots, arrangements[k])]

\* --------------------------------------------------------------- the board

\* count(rules.column.length, _ => count(rules.row.length, _ => 0))
generateEmptyBoardFor(r) == count(Len(r.column), count(Len(r.row), 0))

\* ------------------------------------------------------------ move extractor

\* findValidMoves with the position loop stopping one short (i < length - 1).
findValidMoves_oneShort(lines, indices) ==
  LET length == Len(lines[1])
      allEqualAt(i) == \A n \in 1..Len(lines) : At(lines[n], i) = At(lines[1], i)
      hit(i) == i \in Range(indices) /\ allEqualAt(i)
  IN Concat([p \in 1..(length - 1) |->
       IF hit(p - 1) THEN << <<p - 1, At(lines[1], p - 1)>> >> ELSE <<>>])

\* findValidMoves with allEqualAt using some where it should use every: a
\* position counts as agreed as soon as one candidate agrees with the first.
findValidMoves_some(lines, indices) ==
  LET length == Len(lines[1])
      allEqualAt(i) == \E n \in 1..Len(lines) : At(lines[n], i) = At(lines[1], i)
      hit(i) == i \in Range(indices) /\ allEqualAt(i)
  IN Concat([p \in 1..length |->
       IF hit(p - 1) THEN << <<p - 1, At(lines[1], p - 1)>> >> ELSE <<>>])

\* findValidMoves without the indices.includes(i) test: positions of retired
\* perpendicular lines are reported too.
findValidMoves_allIndices(lines, indices) ==
  LET length == Len(lines[1])
      allEqualAt(i) == \A n \in 1..Len(lines) : At(lines[n], i) = At(lines[1], i)
  IN Concat([p \in 1..length |->
       IF allEqualAt(p - 1) THEN << <<p - 1, At(lines[1], p - 1)>> >> ELSE <<>>])

\* findValidMoves for a non-empty candidate list: the <<position, value>>
\* pairs, ascending by position, of the positions in indices at which every
\* candidate agrees with the first.  (On an empty list the source reads
\* lines[0].length of undefined: see FindMovesFault.)
findValidMoves(lines, indices) ==
  LET length == Len(lines[1])
      allEqualAt(i) == \A n \in 1..Len(lines) : At(lines[n], i) = At(lines[1], i)
      hit(i) == i \in Range(indices) /\ allEqualAt(i)
  IN Concat([p \in 1..length |->
       IF hit(p - 1) THEN << <<p - 1, At(lines[1], p - 1)>> >> ELSE <<>>])

findMovesFromRow(x, unsolvedY, lines) ==
  LET ms == findValidMoves(lines, unsolvedY)
  IN [k \in 1..Len(ms) |-> [x |-> x, y |-> ms[k][1], next |-> ms[k][2]]]

findMovesFromCol(y, unsolvedX, lines) ==
  LET ms == findValidMoves(lines, unsolvedX)
  IN [k \in 1..Len(ms) |-> [x |-> ms[k][1], y |-> y, next |-> ms[k][2]]]

\* ------------------------------------------------------------------ pruners

\* The coordinate of a move's tile along dim ("x" or "y").
tileAt(m, dim) == IF dim = "x" THEN m.x ELSE m.y

isLineConflict(solns) == Len(solns) = 0
isLineSolved(solns) == Len(solns) = 1

filterMoves(dim, i, moves) == SelectSeq(moves, LAMBDA m : tileAt(m, dim) = i)
movesForCol(y, moves) == filterMoves("y", y, moves)
movesForRow(x, moves) == filterMoves("x", x, moves)

\* pruneByMoves whose filter keeps every candidate, whatever the moves say.
pruneByMoves_keepsAll(dim, solns, moves) == <<solns, 0>>

\* pruneByMoves with = for === in the filter's test: each candidate's cells are
\* overwritten with the moves' values and the candidate is kept.
pruneByMoves_patching(dim, solns, moves) ==
  LET patched(soln) ==
        [p \in 1..Len(soln) |->
           IF \E k \in 1..Len(moves) : tileAt(moves[k], dim) = p - 1
           THEN moves[CHOOSE k \in 1..Len(moves) : tileAt(moves[k], dim) = p - 1].next
           ELSE soln[p]]
  IN <<[k \in 1..Len(solns) |-> patched(solns[k])], 0>>

\* The PruneResult <<kept candidates, number removed>>.
pruneByMoves(dim, solns, moves) ==
  LET newSolns == SelectSeq(solns, LAMBDA soln :
                    \A k \in 1..Len(moves) :
                       At(soln, tileAt(moves[k], dim)) = moves[k].next)
  IN <<newSolns, Len(solns) - Len(newSolns)>>

pruneColByMoves(solns, moves) == pruneByMoves("x", solns, moves)
pruneRowByMoves(solns, moves) == pruneByMoves("y", solns, moves)

getPossibleColors(solns, i) == {At(solns[k], i) : k \in 1..Len(solns)}

\* pruneByColors with the filter's test negated: it keeps the candidates whose
\* colour at i is not allowed.
pruneByColors_keepsDisallowed(solns, allowedColors, i) ==
  LET filteredSolns == SelectSeq(solns, LAMBDA soln : At(soln, i) \notin allowedColors)
  IN <<filteredSolns, Len(solns) - Len(filteredSolns)>>

\* pruneByColors filtering solns.slice(1): the first candidate is always dropped.
pruneByColors_dropsFirst(solns, allowedColors, i) ==
  LET filteredSolns ==
        SelectSeq(IF solns = <<>> THEN <<>> ELSE Tail(solns),
                  LAMBDA soln : At(soln, i) \in allowedColors)
  IN <<filteredSolns, Len(solns) - Len(filteredSolns)>>

\* pruneByColors reporting 0 removed whatever the filter dropped.
pruneByColors_uncounted(solns, allowedColors, i) ==
  LET filteredSolns == SelectSeq(solns, LAMBDA soln : At(soln, i) \in allowedColors)
  IN <<filteredSolns, 0>>

pruneByColors(solns, allowedColors, i) ==
  LET filteredSolns == SelectSeq(solns, LAMBDA soln : At(soln, i) \in allowedColors)
  IN <<filteredSolns, Len(solns) - Len(filteredSolns)>>

\* ------------------------------------------------------------------- state

VARIABLES
  rules,             \* the Rules given to solve: [row, column], each a sequence of clues
  board,             \* the Board solve created, mutated in place by generateMoves
  rowMap,            \* row index -> [x, solns], the rows not yet retired
  colMap,            \* column index -> [y, solns], the columns not yet retired
  unsolvedRowCount,
  unsolvedColCount,
  unsolvedRowIdxs,   \* keys(rowMap) as taken at the start of the round
  unsolvedColIdxs,   \* keys(colMap) as taken at the start of the round
  rowMoves,          \* the round's moves found from rows
  colMoves,          \* the round's moves found from columns
  moveIdx,           \* position in rowMoves \o colMoves of the next move to look at
  prunedCount,
  pc,                \* "start", "loop", "yield", "arc", "done"
  outcome,           \* "running", "solved", "SolveError", "TypeError"
  error,             \* the SolveError raised: [message, line, unsolvedRows, unsolvedColumns]
  yielded            \* the moves yielded so far, in order

vars == <<rules, board, rowMap, colMap, unsolvedRowCount, unsolvedColCount,
          unsolvedRowIdxs, unsolvedColIdxs, rowMoves, colMoves, moveIdx,
          prunedCount, pc, outcome, error, yielded>>

NoError == [message |-> "", line |-> -1, unsolvedRows |-> <<>>, unsolvedColumns |-> <<>>]

\* new SolveError(message, unsolvedRows, unsolvedColumns)
SolveError(message, line, rm, cm) ==
  [message |-> message, line |-> line,
   unsolvedRows |-> keys(rm), unsolvedColumns |-> keys(cm)]

\* ------------------------------------------------------------------ inputs

\* The clues over the colours cs whose runs, each of at least one tile, sum to
\* at most n tiles.
cluesUpTo(n, cs) ==
  {c \in UNION {[1..k -> [count : 1..n, val : cs]] : k \in 0..n} : SumCounts(c) <= n}

\* One run of n tiles of colour c, as a RuleEntry.
run(n, c) == [count |-> n, val |-> c]

\* The clues puzzles are drawn from: the empty clue, a single run in colour 0
\* (the id that collides with "unknown") and in colour 1, a run of two, and two
\* runs of different colours (they may touch).
Clues ==
  { <<>>, <<run(1, 0)>>, <<run(1, 1)>>, <<run(2, 1)>>, <<run(1, 0), run(1, 1)>> }

\* The clues square puzzles with colour ids >= 1 are drawn from.
SquareClues ==
  { <<>>, <<run(1, 1)>>, <<run(1, 2)>>, <<run(2, 1)>> }

\* The clues two-colour square puzzles are drawn from: single tiles of colour 1
\* or 2 and the empty clue, so that lines disagree on colour as well as place.
ArcClues ==
  { <<>>, <<run(1, 1)>>, <<run(1, 2)>> }

\* The state solve is in when it first pulls from generateMoves(rules, board).
initFor(r) ==
  /\ rules = r
  /\ board = generateEmptyBoardFor(r)
  /\ rowMap = <<>>
  /\ colMap = <<>>
  /\ unsolvedRowCount = 0
  /\ unsolvedColCount = 0
  /\ unsolvedRowIdxs = <<>>
  /\ unsolvedColIdxs = <<>>
  /\ rowMoves = <<>>
  /\ colMoves = <<>>
  /\ moveIdx = 1
  /\ prunedCount = 0
  /\ pc = "start"
  /\ outcome = "running"
  /\ error = NoError
  /\ yielded = <<>>

\* Any Rules of up to MaxHeight rows and MaxWidth columns.
Init ==
  \E h \in 1..MaxHeight, w \in 1..MaxWidth :
    \E r \in [row : [1..h -> Clues], column : [1..w -> Clues]] : initFor(r)

\* ----------------------------------------------------------------- actions

\* generateMoves up to the loop: the candidate sets of every row and column.
Begin ==
  /\ pc = "start"
  /\ LET width == Len(rules.column)
         height == Len(rules.row)
     IN /\ rowMap' = [x \in 0..(height - 1) |->
                       [x |-> x, solns |-> generateLineSolns(width, rules.row[x + 1])]]
        /\ colMap' = [y \in 0..(width - 1) |->
                       [y |-> y, solns |-> generateLineSolns(height, rules.column[y + 1])]]
        /\ unsolvedRowCount' = height
        /\ unsolvedColCount' = width
  /\ pc' = "loop"
  /\ UNCHANGED <<rules, board, unsolvedRowIdxs, unsolvedColIdxs, rowMoves,
                 colMoves, moveIdx, prunedCount, outcome, error, yielded>>

\* The loop condition fails: generateMoves returns and solve reports solved.
Finish ==
  /\ pc = "loop"
  /\ ~(unsolvedRowCount # 0 /\ unsolvedColCount # 0)
  /\ pc' = "done"
  /\ outcome' = "solved"
  /\ UNCHANGED <<rules, board, rowMap, colMap, unsolvedRowCount, unsolvedColCount,
                 unsolvedRowIdxs, unsolvedColIdxs, rowMoves, colMoves, moveIdx,
                 prunedCount, error, yielded>>

\* findValidMoves reads lines[0].length: with an empty candidate list lines[0]
\* is undefined and the read throws a TypeError.
FindMovesFault ==
  \/ \E x \in DOMAIN rowMap : Len(rowMap[x].solns) = 0
  \/ \E y \in DOMAIN colMap : Len(colMap[y].solns) = 0

\* The start of a round: the active indices and the moves each active line forces.
FindMoves ==
  /\ pc = "loop"
  /\ unsolvedRowCount # 0 /\ unsolvedColCount # 0
  /\ unsolvedRowIdxs' = keys(rowMap)
  /\ unsolvedColIdxs' = keys(colMap)
  /\ IF FindMovesFault
     THEN /\ pc' = "done"
          /\ outcome' = "TypeError"
          /\ UNCHANGED <<rowMoves, colMoves, moveIdx>>
     ELSE LET unsolvedRows == values(rowMap)
              unsolvedCols == values(colMap)
          IN /\ rowMoves' = Concat([k \in 1..Len(unsolvedRows) |->
                              findMovesFromRow(unsolvedRows[k].x, keys(colMap),
                                               unsolvedRows[k].solns)])
             /\ colMoves' = Concat([k \in 1..Len(unsolvedCols) |->
                              findMovesFromCol(unsolvedCols[k].y, keys(rowMap),
                                               unsolvedCols[k].solns)])
             /\ moveIdx' = 1
             /\ pc' = "yield"
             /\ UNCHANGED outcome
  /\ UNCHANGED <<rules, board, rowMap, colMap, unsolvedRowCount, unsolvedColCount,
                 prunedCount, error, yielded>>

\* What board[move.tile.x][move.tile.y] !== 0 does for move m: "fault" when
\* board[x] is undefined (the read of [y] throws a TypeError), "skip" when the
\* cell is undefined or already set, "free" when the cell holds 0.
cellState(b, m) ==
  IF m.x >= Len(b) THEN "fault"
  ELSE IF m.y >= Len(b[m.x + 1]) THEN "skip"
  ELSE IF b[m.x + 1][m.y + 1] # 0 THEN "skip"
  ELSE "free"

\* The round's moves in the order the two yield loops visit them.
roundMoves == rowMoves \o colMoves

RECURSIVE nextMove(_, _, _)
\* From position i of moves: the position of the first move that is not
\* skipped (it is free or faults), or Len(moves) + 1 when every one is skipped.
nextMove(b, moves, i) ==
  IF i > Len(moves) THEN i
  ELSE IF cellState(b, moves[i]) = "skip" THEN nextMove(b, moves, i + 1)
  ELSE i

\* One pull that reaches the next move that is not skipped: its cell holds 0,
\* so it is written to the board and yielded; or its board row does not exist,
\* and the read throws a TypeError, which solve rethrows.
YieldMove ==
  /\ pc = "yield"
  /\ LET i == nextMove(board, roundMoves, moveIdx)
         m == roundMoves[i]
     IN /\ i <= Len(roundMoves)
        /\ moveIdx' = i + 1
        /\ IF cellState(board, m) = "fault"
           THEN /\ pc' = "done"
                /\ outcome' = "TypeError"
                /\ UNCHANGED <<board, yielded>>
           ELSE /\ board' = [board EXCEPT ![m.x + 1][m.y + 1] = m.next]
                /\ yielded' = Append(yielded, m)
                /\ UNCHANGED <<pc, outcome>>
  /\ UNCHANGED <<rules, rowMap, colMap, unsolvedRowCount, unsolvedColCount,
                 unsolvedRowIdxs, unsolvedColIdxs, rowMoves, colMoves,
                 prunedCount, error>>

\* The map m without key k (delete m[k]).
deleteKey(m, k) == [j \in (DOMAIN m) \ {k} |-> m[j]]

RECURSIVE pruneRows(_, _)
\* The loop over unsolvedRows (the rows active at the start of the round), on
\* the loop state st = [rowMap, colMap, rowCount, colCount, pruned, thrown].
pruneRows(xs, st) ==
  IF xs = <<>> \/ st.thrown # NoError THEN st
  ELSE
    LET x == Head(xs)
        solns == st.rowMap[x].solns
    IN IF isLineSolved(solns)
       THEN pruneRows(Tail(xs),
              [st EXCEPT !.rowMap = deleteKey(st.rowMap, x),
                         !.rowCount = st.rowCount - 1,
                         !.pruned = st.pruned + 1])
       ELSE IF isLineConflict(solns)
       THEN [st EXCEPT !.thrown =
              SolveError("Row has no solutions", x, st.rowMap, st.colMap)]
       ELSE LET res == pruneRowByMoves(solns, movesForRow(x, colMoves))
            IN pruneRows(Tail(xs),
                 [st EXCEPT !.rowMap[x].solns = res[1],
                            !.pruned = st.pruned + res[2]])

RECURSIVE pruneCols(_, _)
\* The loop over unsolvedCols, likewise.
pruneCols(ys, st) ==
  IF ys = <<>> \/ st.thrown # NoError THEN st
  ELSE
    LET y == Head(ys)
        solns == st.colMap[y].solns
    IN IF isLineSolved(solns)
       THEN pruneCols(Tail(ys),
              [st EXCEPT !.colMap = deleteKey(st.colMap, y),
                         !.colCount = st.colCount - 1,
                         !.pruned = st.pruned + 1])
       ELSE IF isLineConflict(solns)
       THEN [st EXCEPT !.thrown =
              SolveError("Column has no solutions", y, st.rowMap, st.colMap)]
       ELSE LET res == pruneColByMoves(solns, movesForCol(y, rowMoves))
            IN pruneCols(Tail(ys),
                 [st EXCEPT !.colMap[y].solns = res[1],
                            !.pruned = st.pruned + res[2]])

\* The two loops with let prunedCount = 0 placed between them: what the loop
\* over the rows retired and removed is not counted.
afterMovePruning_rowsUncounted ==
  pruneCols(unsolvedColIdxs,
    [pruneRows(unsolvedRowIdxs,
       [rowMap |-> rowMap, colMap |-> colMap, rowCount |-> unsolvedRowCount,
        colCount |-> unsolvedColCount, pruned |-> 0, thrown |-> NoError])
     EXCEPT !.pruned = 0])

\* The round's state after both retire-and-prune loops, prunedCount from 0.
afterMovePruning ==
  pruneCols(unsolvedColIdxs,
    pruneRows(unsolvedRowIdxs,
      [rowMap |-> rowMap, colMap |-> colMap, rowCount |-> unsolvedRowCount,
       colCount |-> unsolvedColCount, pruned |-> 0, thrown |-> NoError]))

\* Both yield loops are exhausted: retire the solved lines, fail on an empty
\* one, prune the others by the opposite dimension's moves; then go round
\* again if anything was pruned, else on to the arc-consistency pass.
RetireAndPrune ==
  /\ pc = "yield"
  /\ nextMove(board, roundMoves, moveIdx) > Len(roundMoves)
  /\ LET st == afterMovePruning
     IN /\ rowMap' = st.rowMap
        /\ colMap' = st.colMap
        /\ unsolvedRowCount' = st.rowCount
        /\ unsolvedColCount' = st.colCount
        /\ prunedCount' = st.pruned
        /\ error' = st.thrown
        /\ IF st.thrown # NoError
           THEN pc' = "done" /\ outcome' = "SolveError"
           ELSE /\ pc' = IF st.pruned > 0 THEN "loop" ELSE "arc"
                /\ UNCHANGED outcome
  /\ moveIdx' = Len(roundMoves) + 1
  /\ UNCHANGED <<rules, board, unsolvedRowIdxs, unsolvedColIdxs, rowMoves,
                 colMoves, yielded>>

RECURSIVE arcPairs(_, _)
\* The nested loops over unsolvedRowIdxs x unsolvedColIdxs, pair by pair, on
\* st = [rowMap, colMap, pruned].
arcPairs(pairs, st) ==
  IF pairs = <<>> THEN st
  ELSE
    LET x == Head(pairs)[1]
        y == Head(pairs)[2]
        colColors == getPossibleColors(st.colMap[y].solns, x)
        rowColors == getPossibleColors(st.rowMap[x].solns, y)
        combinedPossibleColors == colColors \cap rowColors
        colRes == pruneByColors(st.colMap[y].solns, combinedPossibleColors, x)
        rowRes == pruneByColors(st.rowMap[x].solns, combinedPossibleColors, y)
    IN arcPairs(Tail(pairs),
         [rowMap |-> [st.rowMap EXCEPT ![x].solns = rowRes[1]],
          colMap |-> [st.colMap EXCEPT ![y].solns = colRes[1]],
          pruned |-> st.pruned + colRes[2] + rowRes[2]])

\* The (x, y) pairs in the order the nested loops visit them.
arcOrder ==
  Concat([i \in 1..Len(unsolvedRowIdxs) |->
            [j \in 1..Len(unsolvedColIdxs) |->
               <<unsolvedRowIdxs[i], unsolvedColIdxs[j]>>]])

\* colMap[y] or rowMap[x] of a retired line is undefined: reading its solns
\* throws a TypeError.
ArcFault ==
  \/ \E i \in 1..Len(unsolvedRowIdxs) : unsolvedRowIdxs[i] \notin DOMAIN rowMap
  \/ \E j \in 1..Len(unsolvedColIdxs) : unsolvedColIdxs[j] \notin DOMAIN colMap

\* Nothing was pruned by moves: the mutual arc-consistency pass; give up with
\* "Ran out of moves" if it prunes nothing either.
ArcConsistency ==
  /\ pc = "arc"
  /\ IF ArcFault
     THEN /\ pc' = "done"
          /\ outcome' = "TypeError"
          /\ UNCHANGED <<rowMap, colMap, prunedCount, error>>
     ELSE LET st == arcPairs(arcOrder,
                      [rowMap |-> rowMap, colMap |-> colMap, pruned |-> prunedCount])
          IN /\ rowMap' = st.rowMap
             /\ colMap' = st.colMap
             /\ prunedCount' = st.pruned
             /\ IF st.pruned = 0
                THEN /\ pc' = "done"
                     /\ outcome' = "SolveError"
                     /\ error' = SolveError("Ran out of moves", -1, st.rowMap, st.colMap)
                ELSE /\ pc' = "loop"
                     /\ UNCHANGED <<outcome, error>>
  /\ UNCHANGED <<rules, board, unsolvedRowCount, unsolvedColCount, unsolvedRowIdxs,
                 unsolvedColIdxs, rowMoves, colMoves, moveIdx, yielded>>

Next ==
  \/ Begin
  \/ FindMoves
  \/ YieldMove
  \/ RetireAndPrune
  \/ ArcConsistency
  \/ Finish

Spec == Init /\ [][Next]_vars

\* Square puzzles whose colour ids are all >= 1.
InitSquare ==
  \E n \in 1..MaxSide :
    \E r \in [row : [1..n -> SquareClues], column : [1..n -> SquareClues]] :
      initFor(r)

SpecSquare == InitSquare /\ [][Next]_vars

\* Two-colour square puzzles, on which both pruning methods have work to do.
InitArc ==
  \E n \in 1..MaxArcSide :
    \E r \in [row : [1..n -> ArcClues], column : [1..n -> ArcClues]] :
      initFor(r)

SpecArc == InitArc /\ [][Next]_vars

\* The candidate generator on its own: one row clue over a line of n cells
\* (n columns with empty clues), and the step that builds the candidate sets.
InitGen ==
  \E n \in 0..GenMaxLen :
    \E c \in cluesUpTo(GenMaxSum, 0..GenMaxColor) :
      initFor([row |-> <<c>>, column |-> [i \in 1..n |-> <<>>]])

NextGen == Begin

SpecGen == InitGen /\ [][NextGen]_vars

\* ------------------------------------------------- what the clues demand

RECURSIVE parseFrom(_, _, _)
\* The maximal coloured runs of line from position i on, after the runs acc.
parseFrom(line, i, acc) ==
  IF i > Len(line) THEN acc
  ELSE IF line[i] = -1 THEN parseFrom(line, i + 1, acc)
  ELSE IF i > 1 /\ line[i - 1] = line[i]
  THEN parseFrom(line, i + 1,
         [acc EXCEPT ![Len(acc)].count = acc[Len(acc)].count + 1])
  ELSE parseFrom(line, i + 1, Append(acc, [count |-> 1, val |-> line[i]]))

\* A line read back as a clue: its maximal runs of one colour, in order
\* (-1 is blank, every other value a colour).
ParseRuns(line) == parseFrom(line, 1, <<>>)

\* Every line of length n over blank and the colours of clue that reads back
\* as clue.
SatisfyingLines(n, clue) ==
  {l \in [1..n -> {-1} \cup {clue[i].val : i \in 1..Len(clue)}] : ParseRuns(l) = clue}

Height == Len(rules.row)
Width == Len(rules.column)

\* Row x and column y (0-based) of a full board b, b[x + 1][y + 1] its cell (x, y).
RowOf(b, x) == b[x + 1]
ColumnOf(b, y) == [i \in 1..Len(b) |-> b[i][y + 1]]

RECURSIVE boardsOfRows(_)
\* The boards whose first k rows each satisfy their row clue.
boardsOfRows(k) ==
  IF k = 0 THEN {<<>>}
  ELSE LET above == boardsOfRows(k - 1)
           lines == SatisfyingLines(Width, rules.row[k])
       IN {Append(b, l) : b \in above, l \in lines}

\* The boards of Height rows and Width columns that satisfy every clue.
Solutions ==
  {b \in boardsOfRows(Height) :
     \A y \in 0..(Width - 1) : ParseRuns(ColumnOf(b, y)) = rules.column[y + 1]}

\* board[x][y] as the source reads it; Undefined stands for JavaScript's
\* undefined (a missing row or a missing cell).
Undefined == -2
cellOf(b, x, y) ==
  IF x < Len(b) /\ y < Len(b[x + 1]) THEN b[x + 1][y + 1] ELSE Undefined

\* The returned board read as Height rows of Width cells, indexed row then column.
BoardRow(x) == [j \in 1..Width |-> cellOf(board, x, j - 1)]
BoardColumn(y) == [i \in 1..Height |-> cellOf(board, i - 1, y)]

\* ----------------------------------------------------------------- claims

\* C1 (as claimed): whenever a line's candidate set is empty when the run ends,
\* the run ended with the SolveError, whose unsolved indices list that line, and
\* no other kind of failure escapes.
C1_EmptyLineRaisesSolveError ==
  pc = "done" =>
    /\ outcome # "TypeError"
    /\ \A x \in DOMAIN rowMap : Len(rowMap[x].solns) = 0 =>
         outcome = "SolveError" /\ x \in Range(error.unsolvedRows)
    /\ \A y \in DOMAIN colMap : Len(colMap[y].solns) = 0 =>
         outcome = "SolveError" /\ y \in Range(error.unsolvedColumns)

\* C2 (as claimed): whenever solve returns solved=true, every row and every
\* column of the returned board reads back as that line's clue.
C2_SolvedBoardSatisfiesClues ==
  outcome = "solved" =>
    /\ \A x \in 0..(Height - 1) : ParseRuns(BoardRow(x)) = rules.row[x + 1]
    /\ \A y \in 0..(Width - 1) : ParseRuns(BoardColumn(y)) = rules.column[y + 1]

\* C3 (as claimed): a run ends in exactly one of two ways: solved=true with no
\* unknown (0) cell on the board, or the SolveError.
C3_EndsSolvedFullOrSolveError ==
  pc = "done" =>
    \/ outcome = "SolveError"
    \/ /\ outcome = "solved"
       /\ \A i \in 1..Len(board) : \A j \in 1..Len(board[i]) : board[i][j] # 0

\* C5 (as claimed): the board has one row per row clue and one column per
\* column clue, and every move of the round addresses an existing cell.
C5_BoardIsHeightByWidth ==
  /\ Len(board) = Height
  /\ \A i \in 1..Len(board) : Len(board[i]) = Width
  /\ \A k \in 1..Len(roundMoves) :
       cellOf(board, roundMoves[k].x, roundMoves[k].y) # Undefined

\* A line of the puzzle is retired once the maps are built and it is no longer
\* a key of its map.
retiredRows == IF pc = "start" THEN {} ELSE (0..(Height - 1)) \ DOMAIN rowMap
retiredCols == IF pc = "start" THEN {} ELSE (0..(Width - 1)) \ DOMAIN colMap

\* The board has no unknown cell.
boardFull == \A i \in 1..Len(board) : \A j \in 1..Len(board[i]) : board[i][j] # 0

\* C4: on a square puzzle with colour ids >= 1, every cell of a retired line is
\* already set on the board, so when the loop exits with solved=true (also when
\* only one of the two unsolved counts is zero) no cell of the board is 0.
C4_RetiredLinesAreFilled ==
  /\ \A x \in retiredRows : \A y \in 0..(Width - 1) : cellOf(board, x, y) # 0
  /\ \A y \in retiredCols : \A x \in 0..(Height - 1) : cellOf(board, x, y) # 0
  /\ outcome = "solved" => boardFull

\* C4's case: on a puzzle that has a solution, the loop has exited with every
\* row retired and a column still active.
C4_Witness ==
  /\ outcome = "solved"
  /\ unsolvedRowCount = 0
  /\ unsolvedColCount > 0
  /\ Solutions # {}

\* C8: after stagnation on a square puzzle with colour ids >= 1, unsolved.rows
\* is exactly the set of rows with an unknown (0) cell on the returned board,
\* and unsolved.columns exactly the set of columns with one.
C8_UnsolvedAreTheLinesWithUnknowns ==
  (outcome = "SolveError" /\ error.message = "Ran out of moves") =>
    /\ Range(error.unsolvedRows) =
         {x \in 0..(Height - 1) : \E y \in 0..(Width - 1) : cellOf(board, x, y) = 0}
    /\ Range(error.unsolvedColumns) =
         {y \in 0..(Width - 1) : \E x \in 0..(Height - 1) : cellOf(board, x, y) = 0}

\* C8's case: stagnation with some lines listed and some rows and columns not.
C8_Witness ==
  /\ outcome = "SolveError"
  /\ error.message = "Ran out of moves"
  /\ Len(error.unsolvedRows) \in 1..(Height - 1)
  /\ Len(error.unsolvedColumns) \in 1..(Width - 1)

\* C6 (as claimed): every move yielded, for any Rules, agrees with some board
\* that satisfies every clue.
C6_EveryMoveHasASolution ==
  yielded # <<>> =>
    LET sols == Solutions
    IN \A k \in 1..Len(yielded) :
         \E b \in sols : b[yielded[k].x + 1][yielded[k].y + 1] = yielded[k].next

\* C6 (amended): for Rules that some board satisfies, every move yielded agrees
\* with a board that satisfies every clue.
C6_MovesOfSatisfiableRulesAreSound ==
  yielded # <<>> =>
    LET sols == Solutions
    IN sols # {} =>
         \A k \in 1..Len(yielded) :
           \E b \in sols : b[yielded[k].x + 1][yielded[k].y + 1] = yielded[k].next

\* C6's case: a run on satisfiable Rules has ended after yielding moves from
\* rows and from columns.
C6_Witness ==
  /\ outcome = "solved"
  /\ Solutions # {}
  /\ Len(yielded) >= 3
  /\ \E k \in 1..Len(yielded) : yielded[k].next >= 0
  /\ \E k \in 1..Len(yielded) : yielded[k].next = -1

\* C7 (as claimed): on a puzzle with two or more boards satisfying all clues the
\* run ends with the SolveError raised on stagnation, never with solved=true.
C7_AmbiguousEndsInStagnation ==
  (pc = "done" /\ Cardinality(Solutions) >= 2) =>
    /\ outcome = "SolveError"
    /\ error.message = "Ran out of moves"
    /\ error.unsolvedRows # <<>>
    /\ error.unsolvedColumns # <<>>

RECURSIVE Binomial(_, _)
\* C(n, k), 0 when k does not fit in n.
Binomial(n, k) ==
  IF k < 0 \/ n < k THEN 0
  ELSE IF k = 0 \/ n = k THEN 1
  ELSE Binomial(n - 1, k - 1) + Binomial(n - 1, k)

\* C9: generateLineSolns(L, clue) lists, without duplicates or omissions, exactly
\* the lines of length L that read back as the clue; so it has
\* C(totalSlots, nGroups) entries, is the one all-blank line for an empty clue
\* and is empty when the clue does not fit.
C9_GeneratorIsExact ==
  pc = "loop" =>
    LET clue == rules.row[1]
        solns == rowMap[0].solns
        nGroups == Len(clue)
        mandatory == Cardinality({i \in 2..nGroups : clue[i - 1].val = clue[i].val})
        totalSlots == Width - mandatory - SumCounts(clue) + nGroups
    IN /\ Range(solns) = SatisfyingLines(Width, clue)
       /\ Cardinality(Range(solns)) = Len(solns)
       /\ Len(solns) = Binomial(totalSlots, nGroups)
       /\ clue = <<>> => solns = <<[i \in 1..Width |-> -1]>>
       /\ totalSlots < nGroups => solns = <<>>

\* C9's case: a clue of several runs, two neighbours of one colour, placed in
\* more than one way.
C9_Witness ==
  /\ pc = "loop"
  /\ Len(rules.row[1]) >= 3
  /\ \E i \in 2..Len(rules.row[1]) : rules.row[1][i - 1].val = rules.row[1][i].val
  /\ \E i \in 2..Len(rules.row[1]) : rules.row[1][i - 1].val # rules.row[1][i].val
  /\ Len(rowMap[0].solns) >= 3

\* C10: across every step after the candidate sets are built, each line still
\* active keeps a subset of the candidates it had; none is added.
C10_CandidatesOnlyShrink ==
  [][pc # "start" =>
      /\ \A x \in DOMAIN rowMap' :
           /\ x \in DOMAIN rowMap
           /\ Range(rowMap'[x].solns) \subseteq Range(rowMap[x].solns)
           /\ Len(rowMap'[x].solns) <= Len(rowMap[x].solns)
      /\ \A y \in DOMAIN colMap' :
           /\ y \in DOMAIN colMap
           /\ Range(colMap'[y].solns) \subseteq Range(colMap[y].solns)
           /\ Len(colMap'[y].solns) <= Len(colMap[y].solns)]_vars

\* C10's case: on a square puzzle no move was ever found, so only the
\* arc-consistency pass can have pruned; in the round after it a row and a column
\* still active each hold some but not all of their first candidates.
C10_Witness ==
  /\ pc = "yield"
  /\ prunedCount > 0
  /\ Height = Width
  /\ yielded = <<>>
  /\ \E x \in DOMAIN rowMap :
       Len(rowMap[x].solns) \in 1..(Len(generateLineSolns(Width, rules.row[x + 1])) - 1)
  /\ \E y \in DOMAIN colMap :
       Len(colMap[y].solns) \in 1..(Len(generateLineSolns(Height, rules.column[y + 1])) - 1)

\* C11: for every board that satisfies all clues, its row x is among the
\* candidates of row x while row x is active and its column y among those of
\* column y while column y is active: pruning never removes a solution's line.
C11_SolutionLinesSurvive ==
  pc # "start" =>
    \A b \in Solutions :
      /\ \A x \in DOMAIN rowMap : RowOf(b, x) \in Range(rowMap[x].solns)
      /\ \A y \in DOMAIN colMap : ColumnOf(b, y) \in Range(colMap[y].solns)

\* C11's case: on a puzzle with more than one solution no move was ever found
\* and the arc-consistency pass has removed candidates from a row that is still
\* active and undecided.
C11_Witness ==
  /\ pc = "loop"
  /\ prunedCount > 0
  /\ yielded = <<>>
  /\ Cardinality(Solutions) >= 2
  /\ \E x \in DOMAIN rowMap :
       Len(rowMap[x].solns) \in 2..(Len(generateLineSolns(Width, rules.row[x + 1])) - 1)

\* C12: the retire-and-prune step goes on to the arc-consistency pass exactly
\* when it retired no line and removed no candidate, and back to move extraction
\* otherwise; so when the arc pass runs, the indices it visits are exactly the
\* keys still in the two maps.
C12_ArcOnlyAfterIdleMovePruning ==
  [][/\ (pc = "yield" /\ pc' = "arc") => (rowMap' = rowMap /\ colMap' = colMap)
     /\ (pc = "yield" /\ pc' = "loop") => (rowMap' # rowMap \/ colMap' # colMap)
     /\ pc' = "arc" =>
          /\ pc = "yield"
          /\ prunedCount' = 0
          /\ Range(unsolvedRowIdxs') = DOMAIN rowMap'
          /\ Range(unsolvedColIdxs') = DOMAIN colMap'
     /\ pc = "arc" => ~ArcFault]_vars

\* C12's case: the arc pass is about to run in a later round, after rounds that
\* yielded moves and retired a line.
C12_Witness ==
  /\ pc = "arc"
  /\ yielded # <<>>
  /\ (retiredRows # {} \/ retiredCols # {})

\* The run has ended with the SolveError raised on stagnation.
stagnated == outcome = "SolveError" /\ error.message = "Ran out of moves"

\* C13: the step that raises "Ran out of moves" is taken from the arc pass of a
\* round whose move pruning removed nothing, itself removes nothing, and leaves
\* every active line with two or more candidates and every active row x and
\* column y allowing the same set of colours at their crossing.
C13_StagnationIsAFixpoint ==
  [][(~stagnated /\ stagnated') =>
       /\ pc = "arc"
       /\ prunedCount = 0 /\ prunedCount' = 0
       /\ afterMovePruning.rowMap = rowMap /\ afterMovePruning.colMap = colMap
       /\ rowMap' = rowMap /\ colMap' = colMap
       /\ \A x \in DOMAIN rowMap' : Len(rowMap'[x].solns) >= 2
       /\ \A y \in DOMAIN colMap' : Len(colMap'[y].solns) >= 2
       /\ \A x \in DOMAIN rowMap' : \A y \in DOMAIN colMap' :
            getPossibleColors(rowMap'[x].solns, y) =
              getPossibleColors(colMap'[y].solns, x)]_vars

\* C13's case: stagnation in a later round, after moves were yielded and a row
\* retired, with an active row that has lost candidates and still has several.
C13_Witness ==
  /\ stagnated
  /\ yielded # <<>>
  /\ retiredRows # {}
  /\ \E x \in DOMAIN rowMap :
       Len(rowMap[x].solns) < Len(generateLineSolns(Width, rules.row[x + 1]))

\* The values a cell of a line can hold: blank and the colours of the clues.
lineValues ==
  {-1} \cup UNION {{rules.row[i][j].val : j \in 1..Len(rules.row[i])} : i \in 1..Height}
       \cup UNION {{rules.column[i][j].val : j \in 1..Len(rules.column[i])} : i \in 1..Width}

\* The moves the rows force: one for each active row x and active column y at
\* which every candidate of row x holds the same value, that value as next.
forcedByRows ==
  {m \in [x : DOMAIN rowMap, y : Range(unsolvedColIdxs), next : lineValues] :
     \A k \in 1..Len(rowMap[m.x].solns) : At(rowMap[m.x].solns[k], m.y) = m.next}

\* The moves the columns force, likewise.
forcedByCols ==
  {m \in [x : Range(unsolvedRowIdxs), y : DOMAIN colMap, next : lineValues] :
     \A k \in 1..Len(colMap[m.y].solns) : At(colMap[m.y].solns[k], m.x) = m.next}

\* C14: the moves extracted from the active lines' candidate sets are exactly
\* the forced ones, each listed once: one move for each position of an active
\* perpendicular line at which every candidate agrees, with the agreed value,
\* and none for any other position or for a retired perpendicular line.
C14_ExtractorIsExact ==
  pc = "yield" =>
    LET byRows == forcedByRows
        byCols == forcedByCols
    IN /\ Range(rowMoves) = byRows
       /\ Len(rowMoves) = Cardinality(byRows)
       /\ Range(colMoves) = byCols
       /\ Len(colMoves) = Cardinality(byCols)

\* C14's case: with a column already retired (the rows skip its position), an
\* active column of several candidates has a move at one active row and none
\* at another.
C14_Witness ==
  /\ pc = "yield"
  /\ retiredCols # {}
  /\ \E y \in DOMAIN colMap :
       /\ Len(colMap[y].solns) >= 2
       /\ \E k \in 1..Len(colMoves) : colMoves[k].y = y
       /\ \E x \in DOMAIN rowMap :
            \A k \in 1..Len(colMoves) : ~(colMoves[k].x = x /\ colMoves[k].y = y)

\* The cells (x, y) of board b that hold something other than 0.
nonZeroCells(b) ==
  {c \in (0..(Len(b) - 1)) \X (0..(Max(Height, Width) - 1)) :
     cellOf(b, c[1], c[2]) \notin {0, Undefined}}

\* C15 (as claimed): a pull that yields a move writes exactly that move's cell,
\* which held 0 and now holds move.next; no other step writes the board and no
\* non-zero cell is ever overwritten; so after any pull the non-zero cells of the
\* board (created all-0 by solve) are exactly the cells of the moves yielded.
C15_OneCellPerPull ==
  [][/\ yielded' # yielded =>
          LET m == yielded'[Len(yielded')]
          IN /\ yielded' = Append(yielded, m)
             /\ cellOf(board, m.x, m.y) = 0
             /\ board' = [board EXCEPT ![m.x + 1][m.y + 1] = m.next]
     /\ yielded' = yielded => board' = board
     /\ nonZeroCells(board) \subseteq nonZeroCells(board')
     /\ \A c \in nonZeroCells(board) :
          cellOf(board', c[1], c[2]) = cellOf(board, c[1], c[2])
     /\ nonZeroCells(board') =
          {<<yielded'[k].x, yielded'[k].y>> : k \in 1..Len(yielded')}]_vars

\* C16 (as claimed): for any Rules with colour ids >= 0, no two of the moves
\* yielded over a run address the same cell.
C16_NoCellYieldedTwice ==
  \A i, j \in 1..Len(yielded) :
    i < j => <<yielded[i].x, yielded[i].y>> # <<yielded[j].x, yielded[j].y>>

\* C17: for an active row x and an active column y whose candidates allow the
\* same set of colours at their crossing, the arc-consistency step on that pair
\* removes no candidate and leaves both candidate lists as they were.
C17_ArcPruningIsIdempotent ==
  pc # "start" =>
    \A x \in DOMAIN rowMap : \A y \in DOMAIN colMap :
      getPossibleColors(rowMap[x].solns, y) = getPossibleColors(colMap[y].solns, x) =>
        LET st == [rowMap |-> rowMap, colMap |-> colMap, pruned |-> 0]
            allowed == getPossibleColors(colMap[y].solns, x) \cap
                         getPossibleColors(rowMap[x].solns, y)
        IN /\ arcPairs(<< <<x, y>> >>, st) = st
           /\ pruneByColors(rowMap[x].solns, allowed, y) = <<rowMap[x].solns, 0>>
           /\ pruneByColors(colMap[y].solns, allowed, x) = <<colMap[y].solns, 0>>

\* C17's case: no move was ever found and the arc pass has removed candidates;
\* a row it pruned and a column now allow the same two or more colours at their
\* crossing, each with several candidates left.
C17_Witness ==
  /\ pc = "loop"
  /\ prunedCount > 0
  /\ yielded = <<>>
  /\ \E x \in DOMAIN rowMap : \E y \in DOMAIN colMap :
       /\ Len(rowMap[x].solns) < Len(generateLineSolns(Width, rules.row[x + 1]))
       /\ Len(rowMap[x].solns) >= 2
       /\ Len(colMap[y].solns) >= 2
       /\ getPossibleColors(rowMap[x].solns, y) = getPossibleColors(colMap[y].solns, x)
       /\ Cardinality(getPossibleColors(rowMap[x].solns, y)) >= 2

====
